---- MODULE Spec2Model ----
(***************************************************************************)
(* The streaming execution relay of go-lit.                                *)
(*                                                                         *)
(*   server: Handler.ChatStream / Handler.writeSSEStream (agents handler)  *)
(*   client: api.chat / api.vision, handleStreamResponse,                  *)
(*           handleStreamError, parseSSE (shared api module)               *)
(*                                                                         *)
(* The wire is a sequence of bytes, a text a sequence of characters; both  *)
(* are one-symbol strings.  LF and CR stand for the line feed and the      *)
(* carriage return, U for a character whose UTF-8 form is two bytes.       *)
(***************************************************************************)
EXTENDS Integers, Sequences, FiniteSets, TLC

\* ---------------------------------------------------------------- bounds
\* most items the producer puts on its channel before it closes it
MaxItems == 2
\* most lines of an arbitrary response body (client-only specification)
MaxLines == 2
\* most file parts under one field of a vision form
MaxFiles == 2
\* most api.chat / api.vision calls one ExecutionService makes
MaxStreams == 2
\* most handler calls whose configurations are followed
MaxCalls == 3
\* most chunks they deliver in all
MaxChunks == 2

\* ------------------------------------------------------------ characters
LF == "LF"
CR == "CR"

SSE_DATA_PREFIX == <<"d", "a", "t", "a", ":", " ">>
SSE_DONE_SIGNAL == <<"[", "D", "O", "N", "E", "]">>

\* the identifiers a chunk can carry, and the messages an error can carry
ChunkIds == {1, 2}
ErrMsgs == {"x"}

\* chunk 1 carries an ASCII text, chunk 2 a character of two UTF-8 bytes
IdChar(i) == IF i = 1 THEN "1" ELSE "U"
CharId(c) == IF c = "1" THEN 1 ELSE 2
IdChars == {"1", "U"}

\* the UTF-8 bytes of a text: U is the two bytes U1 U2, every other
\* character of the model is one byte
RECURSIVE Utf8(_)
Utf8(t) ==
  IF t = <<>> THEN <<>>
  ELSE (IF Head(t) = "U" THEN <<"U1", "U2">> ELSE <<Head(t)>>) \o Utf8(Tail(t))

\* ------------------------------------------------------- producer items
\* response.StreamingChunk: a chunk (serializable or not) or an item whose
\* Error field is set
ChunkItem(i, ser) == [kind |-> "chunk", id |-> i, ser |-> ser, msg |-> ""]
ErrorItem(m) == [kind |-> "error", id |-> 0, ser |-> TRUE, msg |-> m]
Items ==
  {ChunkItem(i, s) : i \in ChunkIds, s \in BOOLEAN} \cup {ErrorItem(m) : m \in ErrMsgs}

\* --------------------------------------------------------- Frame Encoder
\* json.Marshal(chunk): the chunk as a JSON object text
MarshalChunk(item) == <<"{", IdChar(item.id), "}">>
\* mutant: the message is written as it is, not as a JSON object
MarshalError_Bare(m) == <<"e", m>>

\* json.Marshal(map[string]string{"error": msg})
MarshalError(m) == <<"{", "e", m, "}">>
\* fmt.Fprintf(w, "data: %s\n\n", data)
Frame(data) == Utf8(SSE_DATA_PREFIX \o data \o <<LF, LF>>)
\* fmt.Fprintf(w, "data: [DONE]\n\n")
DoneFrame == Utf8(SSE_DATA_PREFIX \o SSE_DONE_SIGNAL \o <<LF, LF>>)

\* ----------------------------------------------------- text operations
\* String.prototype.startsWith
StartsWith(s, p) == Len(s) >= Len(p) /\ SubSeq(s, 1, Len(p)) = p

\* String.prototype.slice(n)
Slice(s, n) == SubSeq(s, n + 1, Len(s))

IsSpace(c) == c \in {" ", CR, LF}

RECURSIVE TrimLeft(_)
TrimLeft(s) == IF s # <<>> /\ IsSpace(Head(s)) THEN TrimLeft(Tail(s)) ELSE s

RECURSIVE TrimRight(_)
TrimRight(s) ==
  IF s # <<>> /\ IsSpace(s[Len(s)]) THEN TrimRight(SubSeq(s, 1, Len(s) - 1)) ELSE s

\* String.prototype.trim
Trim(s) == TrimRight(TrimLeft(s))

\* index of the first LF of s, 0 when there is none
RECURSIVE FirstLF(_, _)
FirstLF(s, i) ==
  IF i > Len(s) THEN 0 ELSE IF s[i] = LF THEN i ELSE FirstLF(s, i + 1)

\* buffer.split('\n'): the pieces between line feeds; never empty, its last
\* element is the text after the last line feed
RECURSIVE Split(_)
Split(s) ==
  LET i == FirstLF(s, 1)
  IN  IF i = 0 THEN <<s>> ELSE <<SubSeq(s, 1, i - 1)>> \o Split(Slice(s, i))

\* JSON.parse(data) followed by the test 'error' in chunk:
\*   "throw"  data is no JSON text, or a JSON value that is no object
\*            (the in operator throws a TypeError on it)
\*   "error"  an object with an error key
\*   "chunk"  any other object
ParseJSON(data) ==
  IF Len(data) = 4 /\ data[1] = "{" /\ data[2] = "e" /\ data[4] = "}"
       /\ data[3] \in ErrMsgs
    THEN [shape |-> "error", id |-> 0, msg |-> data[3]]
  ELSE IF Len(data) = 3 /\ data[1] = "{" /\ data[2] \in IdChars /\ data[3] = "}"
    THEN [shape |-> "chunk", id |-> CharId(data[2]), msg |-> ""]
  ELSE [shape |-> "throw", id |-> 0, msg |-> ""]

\* ---------------------------------------------------------------- state
VARIABLES
  srvPc,        \* position of the request's handler goroutine
  sent,         \* the items the producer has put on its channel, in order
  chanClosed,   \* the producer has closed its channel
  cur,          \* the item the range loop holds
  ctxDone,      \* r.Context() is cancelled
  wire,         \* the response body bytes written so far
  flushed,      \* how many of them have been flushed
  frames,       \* the kind of each frame written, in order
  status,       \* the response status the client sees, 0 before the headers
  hasBody,      \* response.body is not null
  errText,      \* the body text of a non-ok response
  req,          \* the request the handler serves
  ctype,        \* the Content-Type header of the response, "" before it is set
  engine,       \* the calls made to the generation engine, in order
  cliPc,        \* position of the promise chain of one api.chat call
  optSignal,    \* the caller supplied options.signal
  ctrlAborted,  \* abort() was called on the AbortController the call returned
  optAborted,   \* the caller aborted the signal it supplied
  rpos,         \* body bytes the reader has handed to parseSSE
  dec,          \* the bytes the streaming TextDecoder holds back
  buffer,       \* parseSSE: the carried partial line
  lines,        \* parseSSE: the lines of the current read still to dispatch
  log,          \* the callbacks invoked, in order
  logAtAbort    \* Len(log) when the fetch signal was aborted, -1 before

hVars == <<req, ctype, engine>>
srvVars == <<srvPc, sent, chanClosed, cur, ctxDone, wire, flushed, frames,
             status, hasBody, errText, hVars>>
cliVars == <<cliPc, optSignal, ctrlAborted, optAborted, rpos, dec, buffer, lines, log,
             logAtAbort>>

VARIABLES
  messages,         \* ExecutionService: the messages signal
  streaming,        \* the streaming signal
  error,            \* the error signal, "null" for null
  currentResponse,  \* the currentResponse signal
  abortController,  \* the stored controller: the stream it belongs to, 0 for null
  streams,          \* the api.chat / api.vision calls the service made, in order
  op,               \* the operation or callback that ran last
  cfgs              \* the configuration each handler call holds in its local cfg

svcVars == <<messages, streaming, error, currentResponse, abortController, streams, op>>
appVars == <<svcVars, cfgs>>
vars == <<srvVars, cliVars, appVars>>

NoItem == [kind |-> "none", id |-> 0, ser |-> TRUE, msg |-> ""]

\* w.(http.Flusher): the net/http response writer reaches the handler
\* unwrapped (the Logger and CORS middleware pass w through), so it flushes
wIsFlusher == TRUE

\* ======================================================== server: handler
\* a request: kind "chat" (JSON body) or "vision" (multipart form)
\*   decodes  json Decode of the body / r.ParseMultipartForm succeeds
\*   cfgJson  the form's config field is JSON (vision)
\*   prompt   the prompt
\*   bracket  the content types of the file parts under images[] (vision)
\*   plain    the content types of the file parts under images (vision)
\*   cfgOk    agent.New accepts the merged configuration
\*   startOk  the engine's ChatStream / VisionStream starts a stream
ImagePng == <<"image/", "png">>
TextPlain == <<"text/", "plain">>
ContentTypes == {ImagePng, TextPlain}
Prompts == {"", "p"}

FileLists == UNION {[1..n -> ContentTypes] : n \in 0..MaxFiles}

ChatRequests ==
  [kind : {"chat"}, decodes : BOOLEAN, cfgJson : {TRUE}, prompt : Prompts,
   bracket : {<<>>}, plain : {<<>>}, cfgOk : BOOLEAN, startOk : BOOLEAN]

VisionRequests ==
  [kind : {"vision"}, decodes : BOOLEAN, cfgJson : BOOLEAN, prompt : Prompts,
   bracket : FileLists, plain : FileLists, cfgOk : BOOLEAN, startOk : BOOLEAN]

NoRequest ==
  [kind |-> "none", decodes |-> TRUE, cfgJson |-> TRUE, prompt |-> "p",
   bracket |-> <<>>, plain |-> <<>>, cfgOk |-> TRUE, startOk |-> TRUE]

\* fileToDataURI: the content type must start with image/
FileOk(ct) == StartsWith(ct, <<"image/">>)

\* mutant: only the first file is checked
RECURSIVE FilesToURIs_FirstOnly(_, _)
FilesToURIs_FirstOnly(files, images) ==
  IF files = <<>> THEN [ok |-> TRUE, images |-> images]
  ELSE IF images = <<>> /\ ~FileOk(Head(files)) THEN [ok |-> FALSE, images |-> <<>>]
  ELSE FilesToURIs_FirstOnly(Tail(files), Append(images, Head(files)))

\* the loop of ParseVisionForm over the files: the data URIs, or the failure
\* of the first file that is refused
RECURSIVE FilesToURIs(_, _)
FilesToURIs(files, images) ==
  IF files = <<>> THEN [ok |-> TRUE, images |-> images]
  ELSE IF ~FileOk(Head(files)) THEN [ok |-> FALSE, images |-> <<>>]
  ELSE FilesToURIs(Tail(files), Append(images, Head(files)))

\* ParseVisionForm: the form, or an error
ParseVisionForm(r) ==
  IF ~r.decodes THEN [ok |-> FALSE, images |-> <<>>]
  ELSE IF ~r.cfgJson THEN [ok |-> FALSE, images |-> <<>>]
  ELSE IF r.prompt = "" THEN [ok |-> FALSE, images |-> <<>>]
  ELSE LET files == IF Len(r.bracket) = 0 THEN r.plain ELSE r.bracket
       IN  FilesToURIs(files, <<>>)

\* mutant: the prompt is not checked
ChatOutcome_NoPromptCheck(r) ==
  IF ~r.decodes THEN [code |-> 400, calls |-> <<>>]
  ELSE IF ~r.cfgOk THEN [code |-> 400, calls |-> <<"New">>]
  ELSE IF ~r.startOk THEN [code |-> 500, calls |-> <<"New", "ChatStream">>]
  ELSE [code |-> 0, calls |-> <<"New", "ChatStream">>]

\* Handler.ChatStream up to writeSSEStream: the status of the error response
\* it answers with (0 when it goes on to writeSSEStream) and the engine calls
\* it has made
ChatOutcome(r) ==
  IF ~r.decodes THEN [code |-> 400, calls |-> <<>>]
  ELSE IF r.prompt = "" THEN [code |-> 400, calls |-> <<>>]
  ELSE IF ~r.cfgOk THEN [code |-> 400, calls |-> <<"New">>]
  ELSE IF ~r.startOk THEN [code |-> 500, calls |-> <<"New", "ChatStream">>]
  ELSE [code |-> 0, calls |-> <<"New", "ChatStream">>]

\* Handler.VisionStream up to writeSSEStream, likewise
VisionOutcome(r) ==
  IF ~ParseVisionForm(r).ok THEN [code |-> 400, calls |-> <<>>]
  ELSE IF ~r.cfgOk THEN [code |-> 400, calls |-> <<"New">>]
  ELSE IF ~r.startOk THEN [code |-> 500, calls |-> <<"New", "VisionStream">>]
  ELSE [code |-> 0, calls |-> <<"New", "VisionStream">>]

\* handlers.RespondError: the JSON content type, the status, the JSON body
RespondError(code) ==
  /\ status' = code
  /\ ctype' = "application/json"
  /\ errText' = "errjson"
  /\ srvPc' = "responded"

\* the handler runs up to its return after RespondError, or up to its call of
\* writeSSEStream
Handle(out) ==
  /\ engine' = out.calls
  /\ IF out.code # 0
       THEN RespondError(out.code)
       ELSE /\ srvPc' = "commit"
            /\ UNCHANGED <<status, ctype, errText>>
  /\ UNCHANGED <<sent, chanClosed, cur, ctxDone, wire, flushed, frames, hasBody, req>>

ChatStream ==
  /\ srvPc = "handler"
  /\ req.kind = "chat"
  /\ Handle(ChatOutcome(req))
  /\ UNCHANGED <<cliVars, appVars>>

VisionStream ==
  /\ srvPc = "handler"
  /\ req.kind = "vision"
  /\ Handle(VisionOutcome(req))
  /\ UNCHANGED <<cliVars, appVars>>

\* f.Flush() when w is a Flusher
Flush(w) == IF wIsFlusher THEN Len(w) ELSE flushed

\* writeSSEStream: the headers, the 200 status and the first flush; the range
\* loop then starts its first receive
Commit ==
  /\ srvPc = "commit"
  /\ ctype' = "text/event-stream"
  /\ status' = 200
  /\ flushed' = Flush(wire)
  /\ srvPc' = "recv"
  /\ UNCHANGED <<sent, chanClosed, cur, ctxDone, wire, frames, hasBody, errText,
                 req, engine>>
  /\ UNCHANGED <<cliVars, appVars>>

\* mutant: the error branch writes its frame and goes on with the loop
WriteErrorFrame_NoReturn(item) ==
  /\ wire' = wire \o Frame(MarshalError(item.msg))
  /\ flushed' = Flush(wire')
  /\ frames' = Append(frames, "error")
  /\ srvPc' = "recv"

\* the error branch of the loop body: the error frame, its flush, return
WriteErrorFrame(item) ==
  /\ wire' = wire \o Frame(MarshalError(item.msg))
  /\ flushed' = Flush(wire')
  /\ frames' = Append(frames, "error")
  /\ srvPc' = "errored"

\* for chunk := range stream: the receive completes with an item the producer
\* sends; an item with Error set takes the error branch at once
Pull ==
  /\ srvPc = "recv"
  /\ ~chanClosed
  /\ Len(sent) < MaxItems
  /\ \E item \in Items :
       /\ sent' = Append(sent, item)
       /\ cur' = item
       /\ IF item.kind = "error"
            THEN WriteErrorFrame(item)
            ELSE /\ srvPc' = "select"
                 /\ UNCHANGED <<wire, flushed, frames>>
  /\ UNCHANGED <<chanClosed, ctxDone, status, hasBody, errText, hVars>>
  /\ UNCHANGED <<cliVars, appVars>>

\* mutant: the sentinel is written and never flushed
WriteDone_Unflushed ==
  /\ wire' = wire \o DoneFrame
  /\ flushed' = flushed
  /\ frames' = Append(frames, "done")
  /\ srvPc' = "completed"

\* the sentinel after the loop, and its flush
WriteDone ==
  /\ wire' = wire \o DoneFrame
  /\ flushed' = Flush(wire')
  /\ frames' = Append(frames, "done")
  /\ srvPc' = "completed"

\* the receive completes because the producer closed the channel: the loop
\* ends and the sentinel is written
PullClosed ==
  /\ srvPc = "recv"
  /\ ~chanClosed
  /\ chanClosed' = TRUE
  /\ cur' = NoItem
  /\ WriteDone
  /\ UNCHANGED <<sent, ctxDone, status, hasBody, errText, hVars>>
  /\ UNCHANGED <<cliVars, appVars>>

\* select { case <-r.Context().Done(): return; default: }
SelectDone ==
  /\ srvPc = "select"
  /\ srvPc' = IF ctxDone THEN "cancelled" ELSE "marshal"
  /\ UNCHANGED <<sent, chanClosed, cur, ctxDone, wire, flushed, frames,
                 status, hasBody, errText, hVars>>
  /\ UNCHANGED <<cliVars, appVars>>

\* mutant: the chunk frame is written twice
WriteChunkFrame_Twice(item) ==
  /\ wire' = wire \o Frame(MarshalChunk(item)) \o Frame(MarshalChunk(item))
  /\ flushed' = Flush(wire')
  /\ frames' = Append(Append(frames, "chunk"), "chunk")

\* mutant: the chunk frame is written and not flushed
WriteChunkFrame_Unflushed(item) ==
  /\ wire' = wire \o Frame(MarshalChunk(item))
  /\ flushed' = flushed
  /\ frames' = Append(frames, "chunk")

\* json.Marshal(chunk); on failure log and continue, else the chunk frame and
\* its flush; either way the loop starts the next receive
WriteChunkFrame(item) ==
  /\ wire' = wire \o Frame(MarshalChunk(item))
  /\ flushed' = Flush(wire')
  /\ frames' = Append(frames, "chunk")

\* mutant: a chunk that cannot be marshalled ends the stream with an error frame
WriteChunk_BadChunkEnds ==
  /\ srvPc = "marshal"
  /\ IF cur.ser
       THEN WriteChunkFrame(cur) /\ srvPc' = "recv"
       ELSE WriteErrorFrame(ErrorItem("x"))
  /\ UNCHANGED <<sent, chanClosed, cur, ctxDone, status, hasBody, errText, hVars>>
  /\ UNCHANGED <<cliVars, appVars>>

\* mutant: a chunk that cannot be marshalled is tried again
WriteChunk_Retries ==
  /\ srvPc = "marshal"
  /\ IF cur.ser
       THEN WriteChunkFrame(cur) /\ srvPc' = "recv"
       ELSE UNCHANGED <<wire, flushed, frames, srvPc>>
  /\ UNCHANGED <<sent, chanClosed, cur, ctxDone, status, hasBody, errText, hVars>>
  /\ UNCHANGED <<cliVars, appVars>>

WriteChunk ==
  /\ srvPc = "marshal"
  /\ IF cur.ser
       THEN WriteChunkFrame(cur)
       ELSE UNCHANGED <<wire, flushed, frames>>
  /\ srvPc' = "recv"
  /\ UNCHANGED <<sent, chanClosed, cur, ctxDone, status, hasBody, errText, hVars>>
  /\ UNCHANGED <<cliVars, appVars>>

\* the request context is cancelled: the client went away, or the server
\* shuts down
CancelCtx ==
  /\ srvPc \in {"commit", "recv", "select", "marshal"}
  /\ ~ctxDone
  /\ ctxDone' = TRUE
  /\ UNCHANGED <<srvPc, sent, chanClosed, cur, wire, flushed, frames,
                 status, hasBody, errText, hVars>>
  /\ UNCHANGED <<cliVars, appVars>>

\* a panic in the handler's goroutine (in agent.New or a.ChatStream before the
\* response is committed; on chunk.Error of a nil item, or in json.Marshal,
\* while draining), or in the producer's goroutine: no function of the handler
\* recovers, the handler writes nothing more and the connection is dropped
Panic ==
  /\ srvPc \in {"handler", "commit", "recv", "select", "marshal"}
  /\ srvPc' = "panicked"
  /\ UNCHANGED <<sent, chanClosed, cur, ctxDone, wire, flushed, frames,
                 status, hasBody, errText, hVars>>
  /\ UNCHANGED <<cliVars, appVars>>

\* the handler has returned: net/http flushes what is left and ends the body
SrvReturned == srvPc \in {"responded", "completed", "errored", "cancelled", "sent"}

\* ========================================================= client: api.ts
\* the callbacks of StreamOptions, as entries of log
OnChunk(i) == [cb |-> "chunk", id |-> i, msg |-> ""]
OnError(m) == [cb |-> "error", id |-> 0, msg |-> m]
OnComplete == [cb |-> "complete", id |-> 0, msg |-> ""]

StatusText(code) == IF code = 400 THEN "Bad Request" ELSE "Internal Server Error"
NetMsg == "Failed to fetch"
AbortMsg == "The user aborted a request."

\* res.ok
Ok(code) == code >= 200 /\ code <= 299

\* const signal = options.signal ?? controller.signal: whether the signal
\* handed to fetch is aborted
FetchAborted == IF optSignal THEN optAborted ELSE ctrlAborted

\* the log length at the moment the fetch signal becomes aborted
MarkAbort(c, o) ==
  IF logAtAbort = -1 /\ (IF optSignal THEN o ELSE c) THEN Len(log') ELSE logAtAbort

\* the caller calls abort() on the controller api.chat returned (from an
\* event handler, that is between two steps of the promise chain)
AbortController ==
  /\ cliPc \in {"fetch", "text", "read"}
  /\ ~ctrlAborted
  /\ ctrlAborted' = TRUE
  /\ UNCHANGED <<cliPc, optSignal, optAborted, rpos, dec, buffer, lines, log>>
  /\ logAtAbort' = MarkAbort(TRUE, optAborted)
  /\ UNCHANGED <<srvVars, appVars>>

\* the caller aborts the signal it passed as options.signal
AbortOptSignal ==
  /\ cliPc \in {"fetch", "text", "read"}
  /\ optSignal
  /\ ~optAborted
  /\ optAborted' = TRUE
  /\ UNCHANGED <<cliPc, optSignal, ctrlAborted, rpos, dec, buffer, lines, log>>
  /\ logAtAbort' = MarkAbort(ctrlAborted, TRUE)
  /\ UNCHANGED <<srvVars, appVars>>

\* mutant: every rejection is reported, whatever its name
HandleStreamError_NoCheck(name, message) == <<OnError(message)>>

\* handleStreamError: the callbacks the catch handler invokes for an error
HandleStreamError(name, message) ==
  IF name # "AbortError" THEN <<OnError(message)>> ELSE <<>>

\* the pending fetch, res.text() or reader.read() rejects because the fetch
\* signal is aborted; the chain's catch handler runs
RejectAbort ==
  /\ cliPc \in {"fetch", "text", "read"}
  /\ FetchAborted
  /\ log' = log \o HandleStreamError("AbortError", AbortMsg)
  /\ cliPc' = "rejAbort"
  /\ UNCHANGED <<optSignal, ctrlAborted, optAborted, rpos, dec, buffer, lines,
                 logAtAbort>>
  /\ UNCHANGED <<srvVars, appVars>>

\* the pending fetch, res.text() or reader.read() rejects with a network
\* failure; the chain's catch handler runs
RejectNetwork ==
  /\ cliPc \in {"fetch", "text", "read"}
  /\ ~FetchAborted
  /\ log' = log \o HandleStreamError("TypeError", NetMsg)
  /\ cliPc' = "rejNet"
  /\ UNCHANGED <<optSignal, ctrlAborted, optAborted, rpos, dec, buffer, lines,
                 logAtAbort>>
  /\ UNCHANGED <<srvVars, appVars>>

\* mutant: a response without a body counts as an empty stream
FetchResolve_NoBodyCompletes ==
  /\ cliPc = "fetch"
  /\ status # 0
  /\ ~FetchAborted
  /\ IF ~Ok(status)
       THEN cliPc' = "text" /\ log' = log
       ELSE IF ~hasBody
         THEN cliPc' = "done" /\ log' = Append(log, OnComplete)
         ELSE cliPc' = "read" /\ log' = log
  /\ UNCHANGED <<optSignal, ctrlAborted, optAborted, rpos, dec, buffer, lines,
                 logAtAbort>>
  /\ UNCHANGED <<srvVars, appVars>>

\* fetch resolves with the response headers: handleStreamResponse runs up to
\* its first await (res.text() or, inside parseSSE, the first reader.read());
\* a response without a body ends parseSSE at once
FetchResolve ==
  /\ cliPc = "fetch"
  /\ status # 0
  /\ ~FetchAborted
  /\ IF ~Ok(status)
       THEN cliPc' = "text" /\ log' = log
       ELSE IF ~hasBody
         THEN cliPc' = "done" /\ log' = Append(log, OnError("No response body"))
         ELSE cliPc' = "read" /\ log' = log
  /\ UNCHANGED <<optSignal, ctrlAborted, optAborted, rpos, dec, buffer, lines,
                 logAtAbort>>
  /\ UNCHANGED <<srvVars, appVars>>

\* mutant: the return after onError is missing, parseSSE runs on the response
TextResolve_NoReturn ==
  /\ cliPc = "text"
  /\ SrvReturned
  /\ ~FetchAborted
  /\ log' = Append(log, OnError(IF errText # "" THEN errText ELSE StatusText(status)))
  /\ cliPc' = "read"
  /\ UNCHANGED <<optSignal, ctrlAborted, optAborted, rpos, dec, buffer, lines,
                 logAtAbort>>
  /\ UNCHANGED <<srvVars, appVars>>

\* res.text() resolves with the whole body of the non-ok response
TextResolve ==
  /\ cliPc = "text"
  /\ SrvReturned
  /\ ~FetchAborted
  /\ log' = Append(log, OnError(IF errText # "" THEN errText ELSE StatusText(status)))
  /\ cliPc' = "nonok"
  /\ UNCHANGED <<optSignal, ctrlAborted, optAborted, rpos, dec, buffer, lines,
                 logAtAbort>>
  /\ UNCHANGED <<srvVars, appVars>>

\* ------------------------------------------------------------ parseSSE
\* decoder.decode(value, { stream: true }) on the held bytes followed by the
\* new ones: complete characters are emitted, a lead byte at the very end is
\* held back, a byte that cannot be decoded becomes U+FFFD
RECURSIVE DecodeText(_)
DecodeText(b) ==
  IF b = <<>> THEN <<>>
  ELSE IF Head(b) = "U1"
    THEN IF Len(b) = 1 THEN <<>>
         ELSE IF b[2] = "U2" THEN <<"U">> \o DecodeText(Tail(Tail(b)))
         ELSE <<"FFFD">> \o DecodeText(Tail(b))
  ELSE IF Head(b) = "U2" THEN <<"FFFD">> \o DecodeText(Tail(b))
  ELSE <<Head(b)>> \o DecodeText(Tail(b))

DecodeHeld(b) == IF b # <<>> /\ b[Len(b)] = "U1" THEN <<"U1">> ELSE <<>>

\* mutant: the partial line is not carried over to the next read
PopBuffer_Empty(parts) == <<>>

\* const lines = buffer.split('\n'); buffer = lines.pop() ?? ''
PopLines(parts) == SubSeq(parts, 1, Len(parts) - 1)
PopBuffer(parts) == parts[Len(parts)]

\* mutant: a payload that cannot be parsed is reported and ends parseSSE
Classify_ThrowStops(line) ==
  IF ~StartsWith(line, SSE_DATA_PREFIX)
    THEN [kind |-> "skip", id |-> 0, msg |-> ""]
  ELSE LET data == Trim(Slice(line, Len(SSE_DATA_PREFIX)))
       IN  IF data = SSE_DONE_SIGNAL
             THEN [kind |-> "complete", id |-> 0, msg |-> ""]
           ELSE LET chunk == ParseJSON(data)
                IN  CASE chunk.shape = "throw" ->
                           [kind |-> "error", id |-> 0, msg |-> "Malformed chunk"]
                      [] chunk.shape = "error" ->
                           [kind |-> "error", id |-> 0, msg |-> chunk.msg]
                      [] OTHER -> [kind |-> "chunk", id |-> chunk.id, msg |-> ""]

\* the body of the for loop for one line: what it does with the line
\*   "skip"      no marker, or JSON.parse / the in test threw
\*   "complete"  the completion literal: onComplete, return
\*   "error"     an error frame: onError, return
\*   "chunk"     onChunk
Classify(line) ==
  IF ~StartsWith(line, SSE_DATA_PREFIX)
    THEN [kind |-> "skip", id |-> 0, msg |-> ""]
  ELSE LET data == Trim(Slice(line, Len(SSE_DATA_PREFIX)))
       IN  IF data = SSE_DONE_SIGNAL
             THEN [kind |-> "complete", id |-> 0, msg |-> ""]
           ELSE LET chunk == ParseJSON(data)
                IN  CASE chunk.shape = "throw" -> [kind |-> "skip", id |-> 0, msg |-> ""]
                      [] chunk.shape = "error" ->
                           [kind |-> "error", id |-> 0, msg |-> chunk.msg]
                      [] OTHER -> [kind |-> "chunk", id |-> chunk.id, msg |-> ""]

\* the callback the loop body invokes for a classified line
Callbacks(c) ==
  CASE c.kind = "complete" -> <<OnComplete>>
    [] c.kind = "error" -> <<OnError(c.msg)>>
    [] c.kind = "chunk" -> <<OnChunk(c.id)>>
    [] OTHER -> <<>>

\* mutant: only an error frame ends parseSSE
Returns_OnlyError(c) == c.kind = "error"

\* mutant: only the completion literal ends parseSSE
Returns_OnlyComplete(c) == c.kind = "complete"

\* the loop body returns from parseSSE after this line
Returns(c) == c.kind \in {"complete", "error"}

\* the bytes reader.read() can hand over: what the server has flushed, and
\* everything once its handler has returned
Avail == IF SrvReturned THEN Len(wire) ELSE flushed

\* reader.read() resolves with the next k bytes; they are decoded, appended to
\* the buffer and split; the for loop starts on the complete lines
ReadData ==
  /\ cliPc = "read"
  /\ ~FetchAborted
  /\ \E k \in 1..(Avail - rpos) :
       LET value == SubSeq(wire, rpos + 1, rpos + k)
           bytes == dec \o value
           parts == Split(buffer \o DecodeText(bytes))
       IN  /\ rpos' = rpos + k
           /\ dec' = DecodeHeld(bytes)
           /\ lines' = PopLines(parts)
           /\ buffer' = PopBuffer(parts)
           /\ cliPc' = IF lines' = <<>> THEN "read" ELSE "dispatch"
  /\ UNCHANGED <<optSignal, ctrlAborted, optAborted, log, logAtAbort>>
  /\ UNCHANGED <<srvVars, appVars>>

\* one iteration of for (const line of lines); the onChunk callback may itself
\* abort the returned controller or the supplied signal
DispatchLine ==
  /\ cliPc = "dispatch"
  /\ LET c == Classify(Head(lines))
     IN  /\ log' = log \o Callbacks(c)
         /\ IF Returns(c)
              THEN /\ cliPc' = "done"
                   /\ lines' = <<>>
                   /\ UNCHANGED <<ctrlAborted, optAborted, logAtAbort>>
              ELSE /\ lines' = Tail(lines)
                   /\ cliPc' = IF lines' = <<>> THEN "read" ELSE "dispatch"
                   /\ \E ab \in {"none", "ctrl", "opt"} :
                        /\ ab # "none" => c.kind = "chunk"
                        /\ ab = "ctrl" => ~ctrlAborted
                        /\ ab = "opt" => optSignal /\ ~optAborted
                        /\ ctrlAborted' = (ctrlAborted \/ ab = "ctrl")
                        /\ optAborted' = (optAborted \/ ab = "opt")
                        /\ logAtAbort' = MarkAbort(ctrlAborted', optAborted')
  /\ UNCHANGED <<optSignal, rpos, dec, buffer>>
  /\ UNCHANGED <<srvVars, appVars>>

\* mutant: the end of the body without a terminal frame is reported as an error
ReadEnd_AsError ==
  /\ cliPc = "read"
  /\ ~FetchAborted
  /\ SrvReturned
  /\ rpos = Len(wire)
  /\ log' = Append(log, OnError("Connection closed"))
  /\ cliPc' = "done"
  /\ UNCHANGED <<optSignal, ctrlAborted, optAborted, rpos, dec, buffer, lines,
                 logAtAbort>>
  /\ UNCHANGED <<srvVars, appVars>>

\* mutant: the text left in the buffer is dispatched as a last line
ReadEnd_FlushesBuffer ==
  /\ cliPc = "read"
  /\ ~FetchAborted
  /\ SrvReturned
  /\ rpos = Len(wire)
  /\ log' = IF Returns(Classify(buffer))
              THEN log \o Callbacks(Classify(buffer))
              ELSE log \o Callbacks(Classify(buffer)) \o <<OnComplete>>
  /\ cliPc' = "done"
  /\ UNCHANGED <<optSignal, ctrlAborted, optAborted, rpos, dec, buffer, lines,
                 logAtAbort>>
  /\ UNCHANGED <<srvVars, appVars>>

\* reader.read() resolves with done: the loop breaks and onComplete is invoked
ReadEnd ==
  /\ cliPc = "read"
  /\ ~FetchAborted
  /\ SrvReturned
  /\ rpos = Len(wire)
  /\ log' = Append(log, OnComplete)
  /\ cliPc' = "done"
  /\ UNCHANGED <<optSignal, ctrlAborted, optAborted, rpos, dec, buffer, lines,
                 logAtAbort>>
  /\ UNCHANGED <<srvVars, appVars>>

\* ==================================================== ExecutionService
\* a piece of text: the stream whose chunk carried it and the place of that
\* chunk in the stream; of stream 0 are the prompt (1) and the "[Vision] "
\* put before it (0)
Tok(st, t) == [s |-> st, t |-> t]

Undefined == [def |-> FALSE, val |-> <<>>]
Defined(v) == [def |-> TRUE, val |-> v]

\* one element of chunk.choices: its delta, and the delta's content, may be absent
Choice(hasDelta, hasContent, content) ==
  [hasDelta |-> hasDelta, hasContent |-> hasContent, content |-> content]

\* the chunks a stream can deliver as its k-th: one with a text of its own,
\* one with the empty string, one without content (the final finish_reason
\* chunk), one without choices, and one whose text is in choice 1 only
Chunks(st, k) ==
  { [choices |-> <<Choice(TRUE, TRUE, <<Tok(st, k)>>)>>],
    [choices |-> <<Choice(TRUE, TRUE, <<>>)>>],
    [choices |-> <<Choice(TRUE, FALSE, <<>>)>>],
    [choices |-> <<>>],
    [choices |-> <<Choice(TRUE, FALSE, <<>>), Choice(TRUE, TRUE, <<Tok(st, k)>>)>>] }

NoOp == [name |-> "none", s |-> 0]
Op(name, st) == [name |-> name, s |-> st]

Message(role, content) == [role |-> role, content |-> content]

\* chunk.choices[0]?.delta?.content
DeltaContent(chunk) ==
  IF Len(chunk.choices) = 0 THEN Undefined
  ELSE LET c == chunk.choices[1]
       IN IF c.hasDelta /\ c.hasContent THEN Defined(c.content) ELSE Undefined

\* if (content): a string that is not empty
Truthy(v) == v.def /\ v.val # <<>>

addUserMessage(content) == messages' = Append(messages, Message("user", content))

\* mutant: the assistant message is appended and the text is kept
finalizeResponse_KeepsText ==
  /\ messages' = IF currentResponse # <<>>
                   THEN Append(messages, Message("assistant", currentResponse))
                   ELSE messages
  /\ currentResponse' = currentResponse

finalizeResponse ==
  /\ messages' = IF currentResponse # <<>>
                   THEN Append(messages, Message("assistant", currentResponse))
                   ELSE messages
  /\ currentResponse' = <<>>

\* mutant: the text of choice 1 is used when choice 0 has none
handleChunk_AnyChoice(chunk) ==
  LET cs == SelectSeq(chunk.choices, LAMBDA c : c.hasDelta /\ c.hasContent /\ c.content # <<>>)
  IN currentResponse' = IF cs # <<>> THEN currentResponse \o cs[1].content
                        ELSE currentResponse

handleChunk(chunk) ==
  currentResponse' = IF Truthy(DeltaContent(chunk))
                       THEN currentResponse \o DeltaContent(chunk).val
                       ELSE currentResponse

handleError(err) ==
  /\ error' = err
  /\ streaming' = FALSE
  /\ finalizeResponse

handleComplete ==
  /\ streaming' = FALSE
  /\ finalizeResponse
  /\ UNCHANGED error

\* api.chat / api.vision: a controller, and a fetch whose promise chain runs on
NewStream == [pc |-> "fetch", delivered |-> <<>>]

\* mutant: a call made while streaming is true starts a stream as well
Start_Unguarded(kind, prompt) ==
  /\ Len(streams) < MaxStreams
  /\ error' = "null"
  /\ streaming' = TRUE
  /\ addUserMessage(prompt)
  /\ streams' = Append(streams, NewStream)
  /\ abortController' = Len(streams) + 1
  /\ op' = Op(kind, 0)
  /\ UNCHANGED currentResponse

\* the body of chat() and of vision()
Start(kind, prompt) ==
  IF streaming
    THEN /\ op' = Op(kind, 0)
         /\ UNCHANGED <<messages, streaming, error, currentResponse, abortController,
                         streams>>
    ELSE /\ Len(streams) < MaxStreams
         /\ error' = "null"
         /\ streaming' = TRUE
         /\ addUserMessage(prompt)
         /\ streams' = Append(streams, NewStream)
         /\ abortController' = Len(streams) + 1
         /\ op' = Op(kind, 0)
         /\ UNCHANGED currentResponse

chat ==
  /\ Start("chat", <<Tok(0, 1)>>)
  /\ UNCHANGED <<srvVars, cliVars, cfgs>>

vision ==
  /\ Start("vision", <<Tok(0, 0), Tok(0, 1)>>)
  /\ UNCHANGED <<srvVars, cliVars, cfgs>>

\* mutant: the controller is not the one whose signal the fetch was given
Abort_Inert(st) == st

\* controller.abort(): the signal of the fetch is aborted; a pending fetch,
\* text() or read() rejects with an AbortError, which handleStreamError drops;
\* a promise chain that has ended is not touched
Abort(st) ==
  [st EXCEPT !.pc = IF st.pc \in {"fetch", "text", "read"} THEN "aborted" ELSE st.pc]

\* mutant: the controller is dropped and never aborted
cancelEffects_NoAbort ==
  /\ UNCHANGED streams
  /\ abortController' = 0
  /\ streaming' = FALSE
  /\ finalizeResponse

\* the body of cancel()
cancelEffects ==
  /\ streams' = IF abortController = 0 THEN streams
                 ELSE [streams EXCEPT ![abortController] = Abort(@)]
  /\ abortController' = 0
  /\ streaming' = FALSE
  /\ finalizeResponse

cancel ==
  /\ cancelEffects
  /\ op' = Op("cancel", 0)
  /\ UNCHANGED error
  /\ UNCHANGED <<srvVars, cliVars, cfgs>>

\* this.cancel(); messages.set([]); error.set(null)
clear ==
  /\ streams' = IF abortController = 0 THEN streams
                 ELSE [streams EXCEPT ![abortController] = Abort(@)]
  /\ abortController' = 0
  /\ streaming' = FALSE
  /\ currentResponse' = <<>>
  /\ messages' = <<>>
  /\ error' = "null"
  /\ op' = Op("clear", 0)
  /\ UNCHANGED <<srvVars, cliVars, cfgs>>

\* the promise chain of stream i moves to pc; a terminal callback ends it
Move(i, pc) == streams' = [streams EXCEPT ![i].pc = pc]

\* the fetch of stream i resolves: a non-ok response is read as text, an ok
\* one without a body is an error, an ok one with a body is read by parseSSE
StreamFetchResolve ==
  \E i \in 1..Len(streams) :
    /\ streams[i].pc = "fetch"
    /\ \/ /\ Move(i, "text")
          /\ op' = Op("response", i)
          /\ UNCHANGED <<messages, streaming, error, currentResponse>>
       \/ /\ Move(i, "read")
          /\ op' = Op("response", i)
          /\ UNCHANGED <<messages, streaming, error, currentResponse>>
       \/ /\ Move(i, "done")
          /\ op' = Op("error", i)
          /\ handleError("No response body")
    /\ UNCHANGED abortController
    /\ UNCHANGED <<srvVars, cliVars, cfgs>>

\* onError of stream i: its fetch rejects with a network error, the text of
\* its non-ok response arrives, or parseSSE dispatches an error frame (or its
\* read rejects with a network error)
StreamError ==
  \E i \in 1..Len(streams) :
    /\ \/ streams[i].pc = "fetch" /\ handleError("net")
       \/ streams[i].pc = "text" /\ handleError("errjson")
       \/ streams[i].pc = "read" /\ handleError("x")
    /\ Move(i, "done")
    /\ op' = Op("error", i)
    /\ UNCHANGED abortController
    /\ UNCHANGED <<srvVars, cliVars, cfgs>>

\* the chunks all the streams have delivered
RECURSIVE CountDelivered(_)
CountDelivered(ss) ==
  IF ss = <<>> THEN 0 ELSE Len(Head(ss).delivered) + CountDelivered(Tail(ss))

Delivered == CountDelivered(streams)

\* parseSSE of stream i dispatches a chunk line: onChunk
StreamChunk ==
  \E i \in 1..Len(streams) :
    /\ streams[i].pc = "read"
    /\ Delivered < MaxChunks
    /\ \E chunk \in Chunks(i, Len(streams[i].delivered) + 1) :
         /\ handleChunk(chunk)
         /\ streams' = [streams EXCEPT ![i].delivered = Append(@, chunk)]
    /\ op' = Op("chunk", i)
    /\ UNCHANGED <<messages, streaming, error, abortController>>
    /\ UNCHANGED <<srvVars, cliVars, cfgs>>

\* parseSSE of stream i dispatches the completion literal, or its body ends:
\* onComplete
StreamComplete ==
  \E i \in 1..Len(streams) :
    /\ streams[i].pc = "read"
    /\ handleComplete
    /\ Move(i, "done")
    /\ op' = Op("complete", i)
    /\ UNCHANGED abortController
    /\ UNCHANGED <<srvVars, cliVars, cfgs>>

ServiceNext ==
  \/ chat
  \/ vision
  \/ cancel
  \/ clear
  \/ StreamFetchResolve
  \/ StreamError
  \/ StreamChunk
  \/ StreamComplete

\* ================================================ execution configuration
\* the fields of a configuration; "" is the zero value of a field
Fields == {"provider", "model"}

\* config.DefaultAgentConfig(): a new value on every call
DefaultAgentConfig == [f \in Fields |-> "default"]

\* the configurations a request can carry: each field set or left out
Partials == [Fields -> {"", "own"}]

\* var req ChatStreamRequest: the zero value, before the body is decoded
ZeroConfig == [f \in Fields |-> ""]

\* cfg.Merge(&req.Config): the fields the overlay sets replace those of cfg
Merge(cfg, overlay) == [f \in Fields |-> IF overlay[f] # "" THEN overlay[f] ELSE cfg[f]]

\* mutant: a call starts from the configuration the call before it left
StartFrom_Previous(i) == IF i > 1 THEN cfgs[i - 1].cfg ELSE DefaultAgentConfig

\* cfg := config.DefaultAgentConfig(): what the local cfg of call i starts from
StartFrom(i) == DefaultAgentConfig

\* a request arrives and its handler decodes the configuration it carries
Receive ==
  /\ Len(cfgs) < MaxCalls
  /\ \E partial \in Partials :
       cfgs' = Append(cfgs, [pc |-> "decoded", partial |-> partial, cfg |-> ZeroConfig])
  /\ UNCHANGED <<srvVars, cliVars, svcVars>>

MakeDefault ==
  \E i \in 1..Len(cfgs) :
    /\ cfgs[i].pc = "decoded"
    /\ cfgs' = [cfgs EXCEPT ![i].pc = "defaulted", ![i].cfg = StartFrom(i)]
    /\ UNCHANGED <<srvVars, cliVars, svcVars>>

MergeConfig ==
  \E i \in 1..Len(cfgs) :
    /\ cfgs[i].pc = "defaulted"
    /\ cfgs' = [cfgs EXCEPT ![i].pc = "merged", ![i].cfg = Merge(@, cfgs[i].partial)]
    /\ UNCHANGED <<srvVars, cliVars, svcVars>>

\* agent.New(&cfg): the execution context is built from the local cfg
NewAgent ==
  \E i \in 1..Len(cfgs) :
    /\ cfgs[i].pc = "merged"
    /\ cfgs' = [cfgs EXCEPT ![i].pc = "built"]
    /\ UNCHANGED <<srvVars, cliVars, svcVars>>

ConfigNext == Receive \/ MakeDefault \/ MergeConfig \/ NewAgent

\* ======================================================== specifications
\* a service just created, and no handler call in progress
AppInit ==
  /\ messages = <<>>
  /\ streaming = FALSE
  /\ error = "null"
  /\ currentResponse = <<>>
  /\ abortController = 0
  /\ streams = <<>>
  /\ op = NoOp
  /\ cfgs = <<>>

ClientInit ==
  /\ cliPc = "fetch"
  /\ optSignal \in BOOLEAN
  /\ ctrlAborted = FALSE
  /\ optAborted = FALSE
  /\ rpos = 0
  /\ dec = <<>>
  /\ buffer = <<>>
  /\ lines = <<>>
  /\ log = <<>>
  /\ logAtAbort = -1

\* one request served by the handler and read by the api.chat call that sent it
Init ==
  /\ srvPc = "handler"
  /\ sent = <<>>
  /\ chanClosed = FALSE
  /\ cur = NoItem
  /\ ctxDone = FALSE
  /\ wire = <<>>
  /\ flushed = 0
  /\ frames = <<>>
  /\ status = 0
  /\ hasBody = TRUE
  /\ errText = ""
  /\ req \in ChatRequests
  /\ ctype = ""
  /\ engine = <<>>
  /\ ClientInit
  /\ AppInit

\* writeSSEStream
RelayNext ==
  \/ Commit
  \/ Pull
  \/ PullClosed
  \/ SelectDone
  \/ WriteChunk
  \/ CancelCtx

ServerNext == ChatStream \/ RelayNext

ClientNext ==
  \/ AbortController
  \/ AbortOptSignal
  \/ RejectAbort
  \/ RejectNetwork
  \/ FetchResolve
  \/ TextResolve
  \/ ReadData
  \/ DispatchLine
  \/ ReadEnd

Next == ServerNext \/ ClientNext

Spec == Init /\ [][Next]_vars

\* the lines an arbitrary response body is made of, as bytes
BodyLines ==
  { Utf8(SSE_DATA_PREFIX \o <<"{", "1", "}", LF>>),
    Utf8(SSE_DATA_PREFIX \o <<"{", "U", "}", CR, LF>>),
    Utf8(SSE_DATA_PREFIX \o <<"{", "e", "x", "}", LF>>),
    Utf8(SSE_DATA_PREFIX \o SSE_DONE_SIGNAL \o <<LF>>),
    Utf8(SSE_DATA_PREFIX \o <<"{", "1", LF>>),
    <<"{", "1", "}", LF>>,
    <<LF>> }

\* what can follow the last line feed of a body
BodyTails ==
  { <<>>,
    Utf8(SSE_DATA_PREFIX \o <<"{", "1", "}">>),
    Utf8(SSE_DATA_PREFIX \o <<"{", "e", "x", "}">>),
    Utf8(SSE_DATA_PREFIX \o SSE_DONE_SIGNAL) }

RECURSIVE Concat(_)
Concat(ss) == IF ss = <<>> THEN <<>> ELSE Head(ss) \o Concat(Tail(ss))

Bodies ==
  { Concat(ls) \o t : ls \in UNION {[1..n -> BodyLines] : n \in 0..MaxLines},
                      t \in BodyTails }

\* one api.chat call against an arbitrary response: any status, with or
\* without a body, any body made of BodyLines, delivered in any reads
InitClient ==
  /\ srvPc = "sent"
  /\ sent = <<>>
  /\ chanClosed = FALSE
  /\ cur = NoItem
  /\ ctxDone = FALSE
  /\ status \in {200, 204, 500}
  /\ hasBody = (status # 204)
  /\ errText \in (IF Ok(status) THEN {""} ELSE {"", "errjson"})
  /\ wire \in (IF status = 200 THEN Bodies ELSE {<<>>})
  /\ flushed = Len(wire)
  /\ frames = <<>>
  /\ req = NoRequest
  /\ ctype = ""
  /\ engine = <<>>
  /\ ClientInit
  /\ AppInit

SpecClient == InitClient /\ [][ClientNext]_vars

\* one request of either kind served by its handler; nobody reads the response
InitHandler ==
  /\ srvPc = "handler"
  /\ sent = <<>>
  /\ chanClosed = FALSE
  /\ cur = NoItem
  /\ ctxDone = FALSE
  /\ wire = <<>>
  /\ flushed = 0
  /\ frames = <<>>
  /\ status = 0
  /\ hasBody = TRUE
  /\ errText = ""
  /\ req \in ChatRequests \cup VisionRequests
  /\ ctype = ""
  /\ engine = <<>>
  /\ cliPc = "fetch"
  /\ optSignal = FALSE
  /\ ctrlAborted = FALSE
  /\ optAborted = FALSE
  /\ rpos = 0
  /\ dec = <<>>
  /\ buffer = <<>>
  /\ lines = <<>>
  /\ log = <<>>
  /\ logAtAbort = -1
  /\ AppInit

HandlerNext == ChatStream \/ VisionStream \/ RelayNext

SpecHandler == InitHandler /\ [][HandlerNext]_vars

\* the handler's goroutine keeps running, and the producer answers every
\* receive with an item or by closing its channel
RelayFairness ==
  /\ WF_vars(ChatStream \/ VisionStream)
  /\ WF_vars(Commit)
  /\ WF_vars(Pull \/ PullClosed)
  /\ WF_vars(SelectDone)
  /\ WF_vars(WriteChunk)

SpecRelayLive == InitHandler /\ [][HandlerNext]_vars /\ RelayFairness

\* one request of either kind, whose serving can panic at any point
FaultNext == HandlerNext \/ Panic

SpecFault == InitHandler /\ [][FaultNext]_vars

\* one ExecutionService, the calls a user makes on it, and the callbacks of
\* the streams it started; the request/response variables stay as created
InitService ==
  /\ srvPc = "sent"
  /\ sent = <<>>
  /\ chanClosed = FALSE
  /\ cur = NoItem
  /\ ctxDone = FALSE
  /\ wire = <<>>
  /\ flushed = 0
  /\ frames = <<>>
  /\ status = 0
  /\ hasBody = TRUE
  /\ errText = ""
  /\ req = NoRequest
  /\ ctype = ""
  /\ engine = <<>>
  /\ cliPc = "fetch"
  /\ optSignal = FALSE
  /\ ctrlAborted = FALSE
  /\ optAborted = FALSE
  /\ rpos = 0
  /\ dec = <<>>
  /\ buffer = <<>>
  /\ lines = <<>>
  /\ log = <<>>
  /\ logAtAbort = -1
  /\ AppInit

SpecService == InitService /\ [][ServiceNext]_vars

\* handler calls served one after another or at the same time, each followed
\* from its decoded request to its agent.New
SpecConfig == InitService /\ [][ConfigNext]_vars

\* ================================================================ claims
IsPrefix(a, b) == Len(a) <= Len(b) /\ SubSeq(b, 1, Len(a)) = a

IsChunkCb(e) == e.cb = "chunk"
IsErrorCb(e) == e.cb = "error"
IsTerminalCb(e) == e.cb \in {"error", "complete"}
IsSerChunk(it) == it.kind = "chunk" /\ it.ser
IsDoneFrame(f) == f = "done"
IsChunkFrame(f) == f = "chunk"

Ids(s) == [i \in 1..Len(s) |-> s[i].id]

\* the chunks handed to onChunk, and the serializable chunks the producer sent
LogChunkIds == Ids(SelectSeq(log, IsChunkCb))
SentChunkIds == Ids(SelectSeq(sent, IsSerChunk))

\* C1: end to end, the chunks handed to onChunk are a prefix of the chunks the
\* producer put on its channel (the unserializable ones left out), in the
\* same order: nothing reordered, nothing duplicated; and when the relay wrote
\* its terminal frame and parseSSE ran to its end, none is lost
C1_ChunkOrder ==
  /\ IsPrefix(LogChunkIds, SentChunkIds)
  /\ (srvPc \in {"completed", "errored"} /\ cliPc = "done") =>
       LogChunkIds = SentChunkIds

C1_Witness == LogChunkIds = <<2, 1>> /\ cliPc = "done" /\ srvPc = "completed"

\* C2: for one api.chat call at most one terminal callback (onError or
\* onComplete) is invoked, and no callback follows it, on every path through
\* handleStreamResponse, parseSSE and handleStreamError
C2_OneTerminal == \A i \in 1..Len(log) : IsTerminalCb(log[i]) => i = Len(log)

\* a completion literal followed by a chunk frame, both delivered in one read
C2_Witness ==
  /\ cliPc = "done"
  /\ log = <<OnComplete>>
  /\ rpos = Len(wire)
  /\ wire = Utf8(SSE_DATA_PREFIX \o SSE_DONE_SIGNAL \o <<LF>>
                   \o SSE_DATA_PREFIX \o <<"{", "1", "}", LF>>)

\* C3: the frames written for one request are chunk frames followed by at most
\* one terminal frame (error frame or sentinel), which is the last frame
C3_FrameShape ==
  \A i \in 1..Len(frames) : frames[i] \in {"error", "done"} => i = Len(frames)

C3_Witness == frames = <<"chunk", "error">> /\ srvPc = "errored"

\* C4: once the request context is cancelled no further frame is written
C4_NoFrameAfterCancel == [][ctxDone => wire' = wire]_vars

\* C5: no receive from the producer is started while the request context is
\* already cancelled
C5_CheckBeforePull == [][(srvPc # "recv" /\ srvPc' = "recv") => ~ctxDone]_vars

\* C6: when the range loop ends because the channel is closed, no pulled item
\* having carried an error, the sentinel is written exactly once, as the last
\* frame, after every chunk frame, and is flushed
C6_SentinelOnClose ==
  chanClosed =>
    /\ srvPc = "completed"
    /\ frames # <<>>
    /\ frames[Len(frames)] = "done"
    /\ Len(SelectSeq(frames, IsDoneFrame)) = 1
    /\ Len(SelectSeq(frames, IsChunkFrame)) = Len(SentChunkIds)
    /\ Len(wire) >= Len(DoneFrame)
    /\ SubSeq(wire, Len(wire) - Len(DoneFrame) + 1, Len(wire)) = DoneFrame
    /\ flushed = Len(wire)

C6_Witness == chanClosed /\ frames = <<"chunk", "chunk", "done">>

\* C7: after the fetch signal is aborted no callback at all is invoked: no
\* further onChunk, no onComplete, no onError
C7_NoCallbackAfterAbort == logAtAbort # -1 => Len(log) = logAtAbort

\* C8: a rejection named AbortError invokes no onError, before the response,
\* while a non-ok body is read and in the middle of the stream; any other
\* rejection invokes onError exactly once, with the error's message
C8_AbortClassified ==
  /\ cliPc = "rejAbort" => SelectSeq(log, IsErrorCb) = <<>>
  /\ cliPc = "rejNet" =>
       /\ SelectSeq(log, IsErrorCb) = <<OnError(NetMsg)>>
       /\ log[Len(log)] = OnError(NetMsg)

\* an abort in the middle of the stream, after a chunk was delivered
C8_Witness == cliPc = "rejAbort" /\ rpos > 0 /\ LogChunkIds # <<>>

\* C9: abort() on the controller the call returned aborts the signal that was
\* passed to fetch, with or without options.signal
C9_ReturnedControllerAborts == ctrlAborted => FetchAborted

\* the callbacks of the for loop over a sequence of complete lines, and
\* whether it returned from parseSSE
RECURSIVE RunLines(_, _)
RunLines(ls, acc) ==
  IF ls = <<>> THEN [log |-> acc, returned |-> FALSE]
  ELSE LET c == Classify(Head(ls))
       IN  IF c.kind \in {"complete", "error"}
             THEN [log |-> acc \o Callbacks(c), returned |-> TRUE]
             ELSE RunLines(Tail(ls), acc \o Callbacks(c))

\* the callbacks parseSSE invokes up to the end of its first loop iteration
\* when bytes arrive in one read
OneRead(bytes) == RunLines(PopLines(Split(DecodeText(bytes))), <<>>)

\* the callbacks parseSSE invokes when the whole body arrives in one read
SingleRead(bytes) ==
  IF OneRead(bytes).returned THEN OneRead(bytes).log
  ELSE Append(OneRead(bytes).log, OnComplete)

\* C10: however the body is cut into reads, parseSSE invokes the callbacks it
\* invokes when the same bytes arrive in a single read: between two reads
\* those of the bytes read so far, at its end those of the whole body
C10_CutIndependent ==
  /\ cliPc = "read" =>
       /\ log = OneRead(SubSeq(wire, 1, rpos)).log
       /\ ~OneRead(SubSeq(wire, 1, rpos)).returned
  /\ (cliPc = "done" /\ hasBody) => log = SingleRead(wire)

\* a read that ended inside a two-byte character, after a chunk was delivered
C10_Witness == cliPc = "read" /\ dec = <<"U1">> /\ LogChunkIds # <<>>

\* onChunk for each of ids, in order
ChunkCbs(ids) == [i \in 1..Len(ids) |-> OnChunk(ids[i])]

\* C11: when the producer yields chunks and then an item carrying an error,
\* the client that reads the response to its end observes exactly onChunk for
\* each chunk, in order, then onError with the error's message, and nothing
\* else: no onComplete
C11_ErrorSequence ==
  (srvPc = "errored" /\ cliPc = "done") =>
    log = ChunkCbs(SentChunkIds) \o <<OnError(sent[Len(sent)].msg)>>

C11_Witness ==
  /\ srvPc = "errored"
  /\ cliPc = "done"
  /\ log = <<OnChunk(2), OnError("x")>>

\* C12: when the producer yields chunks and then closes its channel, the
\* client that reads the response to its end observes exactly onChunk for each
\* chunk, in order, then onComplete once
C12_CleanSequence ==
  (srvPc = "completed" /\ cliPc = "done") =>
    log = ChunkCbs(SentChunkIds) \o <<OnComplete>>

C12_Witness ==
  /\ srvPc = "completed"
  /\ cliPc = "done"
  /\ log = <<OnChunk(1), OnChunk(2), OnComplete>>

\* C13: when the body ends with no completion literal and no error frame (the
\* relay returned on a cancelled context), parseSSE invokes onComplete exactly
\* once, never onError, after onChunk for every chunk frame that was written
C13_AbruptClose ==
  (srvPc = "cancelled" /\ cliPc = "done") =>
    log = ChunkCbs(SubSeq(SentChunkIds, 1, Len(frames))) \o <<OnComplete>>

C13_Witness ==
  /\ srvPc = "cancelled"
  /\ cliPc = "done"
  /\ log = <<OnChunk(1), OnComplete>>

\* C14: a response without a readable body makes parseSSE invoke onError once
\* with 'No response body'; no read is made, no onChunk and no onComplete is
\* invoked
C14_NoBody ==
  (Ok(status) /\ ~hasBody) =>
    /\ cliPc \notin {"read", "dispatch"}
    /\ rpos = 0
    /\ cliPc = "done" => log = <<OnError("No response body")>>

C14_Witness == Ok(status) /\ ~hasBody /\ cliPc = "done"

\* the complete lines that are no well-formed frame: a blank line, a line
\* without the marker, a marked line whose payload is no JSON
BadLines ==
  { <<>>, <<"{", "1", "}">>, Utf8(SSE_DATA_PREFIX \o <<"{", "1">>) }

\* the body with its complete bad lines taken out
RECURSIVE DropBad(_)
DropBad(parts) ==
  IF Len(parts) = 1 THEN parts[1]
  ELSE IF Head(parts) \in BadLines THEN DropBad(Tail(parts))
  ELSE Head(parts) \o <<LF>> \o DropBad(Tail(parts))

\* C15: a complete line that is no well-formed frame causes no callback and
\* does not stop the reader: the callbacks are those of the same body without
\* its bad lines
C15_BadLinesIgnored ==
  (cliPc = "done" /\ hasBody) => log = SingleRead(DropBad(Split(wire)))

\* a payload that is no JSON, then a chunk frame, which is delivered
C15_Witness ==
  /\ cliPc = "done"
  /\ wire = Utf8(SSE_DATA_PREFIX \o <<"{", "1", LF>>
                   \o SSE_DATA_PREFIX \o <<"{", "1", "}", LF>>)
  /\ log = <<OnChunk(1), OnComplete>>

\* the file parts a vision form takes as its images
FormImages(r) == IF r.bracket = <<>> THEN r.plain ELSE r.bracket

IsImageType(ct) == ct = ImagePng

\* a request that fails validation, agent construction or stream start
Failing(r) ==
  \/ ~r.decodes
  \/ r.prompt = ""
  \/ ~r.cfgOk
  \/ ~r.startOk
  \/ r.kind = "vision" /\ ~r.cfgJson
  \/ r.kind = "vision" /\ \E i \in 1..Len(FormImages(r)) : ~IsImageType(FormImages(r)[i])

\* C16: the event-stream headers and the 200 status are written only after
\* validation, agent construction and stream start succeeded; a request that
\* fails one of them gets one JSON error response with a 4xx/5xx status, and
\* no SSE header and no frame
C16_CommitAfterSuccess ==
  /\ (Failing(req) /\ srvPc # "handler") =>
       /\ srvPc = "responded"
       /\ status \in {400, 500}
       /\ ctype = "application/json"
       /\ errText # ""
       /\ wire = <<>>
       /\ frames = <<>>
  /\ (ctype = "text/event-stream" \/ status = 200 \/ wire # <<>>) =>
       /\ ~Failing(req)
       /\ Len(engine) = 2

\* a stream start error of a chat request
C16_Witness ==
  /\ srvPc = "responded"
  /\ status = 500
  /\ engine = <<"New", "ChatStream">>

\* C17: a vision request without any image file part is rejected with a
\* validation error, and no engine call is made for it
C17_ZeroImagesRejected ==
  (req.kind = "vision" /\ req.bracket = <<>> /\ req.plain = <<>>
     /\ srvPc # "handler") =>
    /\ srvPc = "responded"
    /\ status = 400
    /\ engine = <<>>

RECURSIVE ChunkWire(_)
ChunkWire(items) ==
  IF items = <<>> THEN <<>>
  ELSE (IF IsSerChunk(Head(items)) THEN Frame(MarshalChunk(Head(items))) ELSE <<>>)
         \o ChunkWire(Tail(items))

\* the items the loop body has written or skipped: all pulled items but the one
\* in hand (on a cancelled request the one in hand is dropped)
Handled ==
  IF srvPc \in {"select", "marshal", "cancelled"} THEN SubSeq(sent, 1, Len(sent) - 1) ELSE sent

\* C19: a chunk that cannot be serialized writes no frame and does not end the
\* stream: while the loop runs the bytes written are the chunk frames of the
\* serializable chunks; the stream ends only on a closed channel, with the
\* sentinel, or on an item carrying an error, with the error frame (or on a
\* cancelled request), and then the bytes before the terminal frame are again
\* the chunk frames of the serializable chunks
C19_BadChunkSkipped ==
  /\ srvPc \in {"recv", "select", "marshal", "cancelled"} => wire = ChunkWire(Handled)
  /\ srvPc = "completed" => chanClosed /\ wire = ChunkWire(sent) \o DoneFrame
  /\ srvPc = "errored" =>
       /\ sent # <<>>
       /\ sent[Len(sent)].kind = "error"
       /\ wire = ChunkWire(sent) \o Frame(MarshalError(sent[Len(sent)].msg))

\* an unserializable chunk, then a serializable one, then the channel closes
C19_Witness ==
  /\ srvPc = "completed"
  /\ sent = <<ChunkItem(1, FALSE), ChunkItem(2, TRUE)>>
  /\ wire = Frame(MarshalChunk(ChunkItem(2, TRUE))) \o DoneFrame

\* C20: every frame written is flushed before the loop pulls the next item and
\* before writeSSEStream returns: outside a loop body nothing written is
\* unflushed
C20_FlushedBeforeNext ==
  srvPc \in {"recv", "select", "marshal", "completed", "errored", "cancelled"} =>
    flushed = Len(wire)

\* two chunk frames written, the loop at its third receive
C20_Witness ==
  /\ srvPc = "recv"
  /\ frames = <<"chunk", "chunk">>
  /\ flushed = Len(wire)
  /\ wire # <<>>

\* the non-empty delta contents of choice 0 of the chunks, joined in order
RECURSIVE Assembled(_)
Assembled(chunks) ==
  IF chunks = <<>> THEN <<>>
  ELSE LET cs == Head(chunks).choices
           own == IF cs # <<>> /\ cs[1].hasDelta /\ cs[1].hasContent
                    THEN cs[1].content ELSE <<>>
       IN own \o Assembled(Tail(chunks))

\* stream i has run to its onComplete in this step
CompletesNow(i) ==
  /\ i \in 1..Len(streams)
  /\ streams[i].pc = "read"
  /\ streams'[i].pc = "done"
  /\ op' = Op("complete", i)

\* C21: when a stream completes, the assistant message appended is the
\* concatenation, in delivery order, of the non-empty delta contents of
\* choice 0 of its chunks (and none is appended when that is empty); a chunk
\* without such a content adds nothing
C21_AssembledText ==
  [][\A i \in 1..MaxStreams :
       CompletesNow(i) =>
         messages' = IF Assembled(streams[i].delivered) # <<>>
                       THEN Append(messages,
                                   Message("assistant", Assembled(streams[i].delivered)))
                       ELSE messages]_vars

\* a stream that delivered a text, then the final chunk without content, and
\* completed
C21_Witness ==
  /\ op = Op("complete", 1)
  /\ streams[1].delivered = << [choices |-> <<Choice(TRUE, TRUE, <<Tok(1, 1)>>)>>],
                               [choices |-> <<Choice(TRUE, FALSE, <<>>)>>] >>
  /\ messages = << Message("user", <<Tok(0, 1)>>),
                   Message("assistant", <<Tok(1, 1)>>) >>

\* C22: the execution context of a handler call is a function of the
\* configuration its request carried: it is that configuration laid over the
\* defaults, and two calls with the same configuration get the same context,
\* whatever calls were served before or are served at the same time; a step of
\* one call changes nothing of another call
C22_ContextOfOwnConfig ==
  /\ [](\A i \in 1..Len(cfgs) :
          cfgs[i].pc = "built" =>
            /\ \A f \in Fields :
                 cfgs[i].cfg[f] = IF cfgs[i].partial[f] = "" THEN "default" ELSE "own"
            /\ \A j \in 1..Len(cfgs) :
                 (cfgs[j].pc = "built" /\ cfgs[j].partial = cfgs[i].partial) =>
                   cfgs[j].cfg = cfgs[i].cfg)
  /\ [][\A i, j \in 1..Len(cfgs) :
          (cfgs'[i] # cfgs[i] /\ cfgs'[j] # cfgs[j]) => i = j]_vars

\* two calls with the same configuration, served around one with another
C22_Witness ==
  /\ Len(cfgs) = 3
  /\ \A i \in 1..3 : cfgs[i].pc = "built"
  /\ cfgs[1].partial = cfgs[3].partial
  /\ cfgs[2].partial # cfgs[1].partial
  /\ cfgs[1].partial = [f \in Fields |-> IF f = "model" THEN "own" ELSE ""]

\* C23: a fault while the sequence is drained ends in an error frame on the
\* committed stream; a fault before the response is committed ends in a
\* conventional error response
C23_FaultReported ==
  srvPc = "panicked" =>
    IF status = 200
      THEN frames # <<>> /\ frames[Len(frames)] = "error"
      ELSE status \in {400, 500} /\ ctype = "application/json"

RelayTerminal == {"completed", "errored", "cancelled"}

IsTerminalFrame(f) == f \in {"error", "done"}

\* C24: a run of writeSSEStream ends in one of Completed (the sentinel is the
\* last frame), Errored (the error frame is) and Cancelled (the context is done
\* and no terminal frame was written); once there it pulls and writes nothing
\* more; and when the producer answers every receive, every run gets there
C24_RelayTerminates ==
  /\ [](/\ srvPc = "completed" => frames # <<>> /\ frames[Len(frames)] = "done"
        /\ srvPc = "errored" => frames # <<>> /\ frames[Len(frames)] = "error"
        /\ srvPc = "cancelled" => ctxDone /\ SelectSeq(frames, IsTerminalFrame) = <<>>)
  /\ [][(srvPc \in RelayTerminal) => UNCHANGED <<srvPc, sent, cur, wire, frames>>]_vars
  /\ (srvPc = "commit" ~> srvPc \in RelayTerminal)

\* a run that skipped an unserializable chunk and was then cancelled
C24_Witness ==
  /\ srvPc = "cancelled"
  /\ Len(sent) = 2
  /\ ~sent[1].ser
  /\ frames = <<>>

\* a stream whose promise chain can still invoke a callback: not aborted, and
\* not past its terminal callback
Live(i) == streams[i].pc \in {"fetch", "text", "read"}

\* C25: at most one stream of an ExecutionService is live, and streaming is
\* true whenever one is
C25_OneLiveStream ==
  /\ \A i, j \in 1..Len(streams) : (Live(i) /\ Live(j)) => i = j
  /\ (\E i \in 1..Len(streams) : Live(i)) => streaming

\* a second stream being read after the first was cancelled
C25_Witness ==
  /\ Len(streams) = 2
  /\ streams[1].pc = "aborted"
  /\ streams[2].pc = "read"
  /\ streaming

IsAssistant(m) == m.role = "assistant"

\* the streams the pieces of a text came from
Origins(text) == {text[k].s : k \in 1..Len(text)}

\* C26: no callback of a cancelled stream touches a later exchange: the text
\* being accumulated comes from the newest stream only, every assistant
\* message holds the text of one stream only, and while a stream runs only
\* that stream, cancel() or clear() sets streaming to false or sets error
C26_NoLateCallback ==
  /\ [](/\ Origins(currentResponse) \subseteq {Len(streams)}
        /\ \A k \in 1..Len(messages) :
             IsAssistant(messages[k]) => Cardinality(Origins(messages[k].content)) = 1)
  /\ [][(\A i \in 1..Len(streams) :
           streams[i].pc = "aborted" => streams'[i] = streams[i])
        /\ ((streaming /\ ~streaming')
              => (op'.name \in {"cancel", "clear"} \/ op'.s = Len(streams)))
        /\ ((error' # error /\ error' # "null") => op'.s = Len(streams))]_vars

\* the first stream delivered a text and was cancelled; the second delivers its own
C26_Witness ==
  /\ Len(streams) = 2
  /\ streams[1].pc = "aborted"
  /\ streams[1].delivered # <<>>
  /\ messages = << Message("user", <<Tok(0, 1)>>),
                   Message("assistant", <<Tok(1, 1)>>),
                   Message("user", <<Tok(0, 1)>>) >>
  /\ currentResponse = <<Tok(2, 1)>>

\* C27: chat() and vision() called while streaming is true change nothing:
\* no message, no error reset, no text, no controller, no request
C27_BusyCallIsNoOp ==
  [][(streaming /\ op'.name \in {"chat", "vision"}) =>
       UNCHANGED <<messages, streaming, error, currentResponse, abortController,
                   streams>>]_vars

\* vision() was called while the stream of a chat() was being read
C27_Witness ==
  /\ op = Op("vision", 0)
  /\ streaming
  /\ Len(streams) = 1
  /\ streams[1].pc = "read"
  /\ messages = <<Message("user", <<Tok(0, 1)>>)>>
  /\ currentResponse = <<Tok(1, 1)>>

\* C28: currentResponse is empty whenever streaming is false; the step that
\* ends an exchange appends the accumulated text as one assistant message if
\* it is not empty and nothing if it is; a later terminal event or cancel()
\* of the same exchange appends nothing, so that no two assistant messages
\* follow each other
C28_CommittedOnce ==
  /\ [](/\ ~streaming => currentResponse = <<>>
        /\ \A k \in 1..Len(messages) :
             IsAssistant(messages[k]) => (k > 1 /\ ~IsAssistant(messages[k - 1])))
  /\ [][((streaming /\ ~streaming' /\ op'.name # "clear") =>
           messages' = IF currentResponse # <<>>
                         THEN Append(messages, Message("assistant", currentResponse))
                         ELSE messages)
        /\ ((~streaming /\ ~streaming') => (messages' = messages \/ messages' = <<>>))]_vars

\* a stream completed with a text, and cancel() was called afterwards
C28_Witness ==
  /\ op = Op("cancel", 0)
  /\ Len(streams) = 1
  /\ streams[1].pc = "done"
  /\ ~streaming
  /\ messages = << Message("user", <<Tok(0, 1)>>),
                   Message("assistant", <<Tok(1, 1)>>) >>

\* C29: for a response whose status is not 2xx, onError is invoked once, with
\* the body text or, when that is empty, the status text; parseSSE is not
\* started (nothing is read), and neither onChunk nor onComplete is invoked
C29_NonOkResponse ==
  (status # 0 /\ ~Ok(status)) =>
    /\ cliPc \notin {"read", "dispatch", "done"}
    /\ rpos = 0
    /\ Len(log) <= 1
    /\ \A i \in 1..Len(log) : IsErrorCb(log[i])
    /\ cliPc = "nonok" =>
         log = <<OnError(IF errText = "" THEN "Internal Server Error" ELSE errText)>>

\* a 500 response with an empty body
C29_Witness ==
  /\ cliPc = "nonok"
  /\ status = 500
  /\ errText = ""
  /\ log = <<OnError("Internal Server Error")>>

\* the place of the last line feed of bytes, 0 when there is none
LastLF(bytes) ==
  IF \E i \in 1..Len(bytes) : bytes[i] = LF
    THEN CHOOSE i \in 1..Len(bytes) :
           bytes[i] = LF /\ \A j \in (i + 1)..Len(bytes) : bytes[j] # LF
    ELSE 0

\* C30: the text after the last line feed of the body is never dispatched: the
\* callbacks are those of the body without it, and when no complete line ended
\* parseSSE the last and only terminal callback is one onComplete
C30_TailDropped ==
  (cliPc = "done" /\ hasBody) =>
    /\ log = SingleRead(SubSeq(wire, 1, LastLF(wire)))
    /\ ~OneRead(SubSeq(wire, 1, LastLF(wire))).returned =>
         /\ log[Len(log)] = OnComplete
         /\ Len(SelectSeq(log, IsTerminalCb)) = 1

\* a chunk line followed by an error frame that has no line feed
C30_Witness ==
  /\ cliPc = "done"
  /\ wire = Utf8(SSE_DATA_PREFIX \o <<"{", "1", "}", LF>>
                   \o SSE_DATA_PREFIX \o <<"{", "e", "x", "}">>)
  /\ buffer = SSE_DATA_PREFIX \o <<"{", "e", "x", "}">>
  /\ log = <<OnChunk(1), OnComplete>>

====
